---- MODULE Spec2Model ----
(***************************************************************************)
(* State-machine model of the UCI session of node-uci-protocol:            *)
(*   - prepare.listen / handleLine / protocolHandler (lib/UCI/Types.ts),   *)
(*   - the UCIProxyHandler of the gleam-chess-tournament adapter.          *)
(*                                                                         *)
(* One action is one turn of the JavaScript event loop: the callback of    *)
(* an external event (a line of input, the robot's HTTP reply, the         *)
(* completion callback of a stream write, the end of the robot's startup)  *)
(* together with every promise continuation it makes runnable.  A handler  *)
(* call that reaches an await on something not yet settled stays pending   *)
(* and is resumed by the action of the event that settles it.              *)
(*                                                                         *)
(* Chess is abstracted to the side to move.  A FEN is "w" or "b" (its      *)
(* side-to-move field) or "bad" (a string chess.js refuses to load).  A    *)
(* move of the move list is "W" or "B", the colour of the piece it moves;  *)
(* it is legal exactly when that colour is to move.                        *)
(***************************************************************************)
EXTENDS Integers, Sequences, FiniteSets, TLC

\* ---------------------------------------------------------------- bounds
MaxLines == 3
MaxMoves == 1

\* ------------------------------------------------------------- constants
startFen == "w"
Fens == {"w", "b", "bad"}
Moves == {"W", "B"}
AdvertiseOptions == <<"Hash", "Ponder">>
EngineName == "Gnomes"

RECURSIVE SeqsUpTo(_, _)
SeqsUpTo(S, n) ==
  IF n = 0 THEN {<<>>}
  ELSE LET r == SeqsUpTo(S, n - 1)
       IN  r \cup {Append(q, x) : q \in {p \in r : Len(p) = n - 1}, x \in S}

MoveLists == SeqsUpTo(Moves, MaxMoves)

VARIABLES
  nlines,        \* number of "line" events delivered so far
  last,          \* tag of the command of the latest line
  calls,         \* handler calls of Uci and IsReady lines, in arrival order
  searches,      \* the robot requests started by onGo, in start order
  robotRequest,  \* this.robotRequest: 0 = undefined, else index in searches
  aborted,       \* this.abortController.signal.aborted
  fen,           \* this.fen
  moves,         \* this.moves
  initialized,   \* this.initialized
  startupDone,   \* the promise behind onStartup has resolved
  output,        \* lines written to the protocol output, in write order
  errors,        \* number of writes to the error side channel
  teardown,      \* state of the onQuit_ capability
  exited,        \* "running", then "exit0" / "exit1" after process.exit
  lastArg,       \* payload of the command of the latest line
  input,         \* parser under test: the input it is applied to
  result         \* parser under test: what it returned

vars == <<nlines, last, calls, searches, robotRequest, aborted, fen, moves,
          initialized, startupDone, output, errors, teardown, exited, lastArg,
          input, result>>

\* The variables of the parser under test; the session leaves them alone.
pvars == <<input, result>>

\* The variables of the session; applying a parser leaves them alone.
svars == <<nlines, last, calls, searches, robotRequest, aborted, fen, moves,
           initialized, startupDone, output, errors, teardown, exited, lastArg>>

\* ------------------------------------------------------------ chess model
Flip(side) == IF side = "w" THEN "b" ELSE "w"
MoveColour(side) == IF side = "w" THEN "W" ELSE "B"

\* loadBoard: load this.fen, then apply this.moves until one is illegal.
RECURSIVE Replay(_, _)
Replay(side, ms) ==
  IF ms = <<>> THEN side
  ELSE IF Head(ms) = MoveColour(side) THEN Replay(Flip(side), Tail(ms))
  ELSE side

RECURSIVE ReplayFails(_, _)
ReplayFails(side, ms) ==
  IF ms = <<>> THEN FALSE
  ELSE IF Head(ms) = MoveColour(side) THEN ReplayFails(Flip(side), Tail(ms))
  ELSE TRUE

loadBoardThrows(f) == f = "bad"
loadBoard(f, ms) == Replay(f, ms)

\* onGo line 239: the turn sent to the robot.
turnOf(f) == IF f = "w" THEN "white" ELSE "black"

\* sanToLan: reload the board from the handler's current fen and moves and
\* play the robot's SAN move on it; chess.move throws on an illegal move.
sanToLanThrows(reply, sentBoard, f, ms) ==
  \/ loadBoardThrows(f)
  \/ reply # "move"
  \/ loadBoard(f, ms) # sentBoard

sanToLan(f, ms) == MoveColour(loadBoard(f, ms))

\* -------------------------------------------------------- protocol output
\* serializeGUICmd: one record per line written; text is the keyword part
\* of the line, arg the rest.
Line(id, text, arg) == [id |-> id, text |-> text, arg |-> arg]

\* protocolHandler, case "UCI": id name, id author, the options, uciok.
uciResponse(id) ==
  <<Line(id, "id name", EngineName), Line(id, "id author", EngineName)>>
  \o [i \in 1..Len(AdvertiseOptions) |-> Line(id, "option", AdvertiseOptions[i])]
  \o <<Line(id, "uciok", "")>>

\* protocolHandler, case "IsReady".
readyResponse(id) == <<Line(id, "readyok", "")>>

\* sendInfo(info.score([score.centipawns(1)])) and sendBestMove(lan).
infoLine(id) == Line(id, "info", "score cp 1")
bestMoveLine(id, lan) == Line(id, "bestmove", lan)

\* ------------------------------------------------------------ handler calls
Call(id, cmd, on, waited, st) ==
  [id |-> id, cmd |-> cmd, on |-> on, waited |-> waited, st |-> st,
   doneAt |-> IF st = "done" THEN id ELSE 0]

\* onReadyProbe: returns at once when this.robotRequest is undefined;
\* otherwise awaits it, which suspends the call while it is unsettled.
onReadyProbeNoWait(rr, ss) == FALSE

onReadyProbeWaits(rr, ss) == rr # 0 /\ ss[rr].st = "pending"

\* onInit: await this.onStartup() suspends until the startup has resolved.
onInitNeverResumes(started) == TRUE

onInitNoWait(started) == FALSE

onInitWaits(started) == ~started

IsWaiter(c, cmd, s) == c.cmd = cmd /\ c.st = "pending" /\ c.on = s

\* The pending calls of command cmd that wait on s, in registration order.
Waiters(cs, cmd, s) == SelectSeq(cs, LAMBDA c : IsWaiter(c, cmd, s))

\* The continuations of the awaits run in the order the awaits were made.
resumeLastFirst(ws) == [i \in 1..Len(ws) |-> ws[Len(ws) + 1 - i]]

resumeOrder(ws) == ws

\* The lines the resumed onReadyProbe calls write: one readyok each.
readyOks(cs, s) ==
  LET ws == resumeOrder(Waiters(cs, "IsReady", s))
  IN  [i \in 1..Len(ws) |-> Line(ws[i].id, "readyok", "")]

RECURSIVE Flatten(_)
Flatten(ss) == IF ss = <<>> THEN <<>> ELSE Head(ss) \o Flatten(Tail(ss))

uciOks(cs) ==
  LET ws == resumeOrder(Waiters(cs, "UCI", 0))
  IN  Flatten([i \in 1..Len(ws) |-> uciResponse(ws[i].id)])

resume(cs, cmd, s, n) ==
  [i \in DOMAIN cs |->
     IF IsWaiter(cs[i], cmd, s)
     THEN [cs[i] EXCEPT !.st = "done", !.doneAt = n]
     ELSE cs[i]]

\* ------------------------------------------------------------------- Init
NoArg == [position |-> [tag |-> "none"], moves |-> <<>>]
NoInput == [kind |-> "none"]

SessionInit ==
  /\ nlines = 0
  /\ last = "none"
  /\ calls = <<>>
  /\ searches = <<>>
  /\ robotRequest = 0
  /\ aborted = FALSE
  /\ fen = startFen
  /\ moves = <<>>
  /\ initialized = FALSE
  /\ startupDone = FALSE
  /\ output = <<>>
  /\ errors = 0
  /\ teardown = "idle"
  /\ exited = "running"
  /\ lastArg = NoArg

Init ==
  /\ SessionInit
  /\ input = NoInput
  /\ result = NoInput

\* ------------------------------------------------- prepare.listen.handleLine
\* A "line" event: the line is parsed and, when it parses, dispatched.
ReceiveWith(tag, payload) ==
  /\ exited = "running"
  /\ nlines < MaxLines
  /\ nlines' = nlines + 1
  /\ last' = tag
  /\ lastArg' = payload
  /\ UNCHANGED pvars

Receive(tag) == ReceiveWith(tag, NoArg)

\* parseUCIEngineCmd fails: informResult writes the error to the side channel.
LineUnparsableToOutput ==
  /\ Receive("ParseError")
  /\ output' = Append(output, Line(nlines + 1, "error", ""))
  /\ UNCHANGED <<calls, searches, robotRequest, aborted, fen, moves,
                 initialized, startupDone, errors, teardown, exited>>

LineUnparsable ==
  /\ Receive("ParseError")
  /\ errors' = errors + 1
  /\ UNCHANGED <<calls, searches, robotRequest, aborted, fen, moves,
                 initialized, startupDone, output, teardown, exited>>

\* "uci": onInit, then the identity, the options and uciok in one write.
LineUci ==
  /\ Receive("UCI")
  /\ IF onInitWaits(startupDone)
     THEN /\ calls' = Append(calls, Call(nlines + 1, "UCI", 0, TRUE, "pending"))
          /\ UNCHANGED <<initialized, output>>
     ELSE /\ calls' = Append(calls, Call(nlines + 1, "UCI", 0, FALSE, "done"))
          /\ initialized' = TRUE
          /\ output' = output \o uciResponse(nlines + 1)
  /\ UNCHANGED <<searches, robotRequest, aborted, fen, moves, startupDone,
                 errors, teardown, exited>>

\* The promise behind onStartup resolves: every pending onInit resumes.
StartupDone ==
  /\ exited = "running"
  /\ ~startupDone
  /\ startupDone' = TRUE
  /\ calls' = resume(calls, "UCI", 0, nlines)
  /\ output' = output \o uciOks(calls)
  /\ initialized' = (initialized \/ Len(Waiters(calls, "UCI", 0)) > 0)
  /\ UNCHANGED <<lastArg, input, result>>
  /\ UNCHANGED <<nlines, last, searches, robotRequest, aborted, fen, moves,
                 errors, teardown, exited>>

\* "isready": onReadyProbe, then readyok.
LineIsReady ==
  /\ Receive("IsReady")
  /\ IF onReadyProbeWaits(robotRequest, searches)
     THEN /\ calls' = Append(calls,
                 Call(nlines + 1, "IsReady", robotRequest, TRUE, "pending"))
          /\ UNCHANGED output
     ELSE /\ calls' = Append(calls,
                 Call(nlines + 1, "IsReady", robotRequest, FALSE, "done"))
          /\ output' = output \o readyResponse(nlines + 1)
  /\ UNCHANGED <<searches, robotRequest, aborted, fen, moves, initialized,
                 startupDone, errors, teardown, exited>>

\* "debug", "setoption", "ponderhit": handlers with an empty body;
\* "register": no handler at all.  The response is the empty string.
NoOpLine(tag) ==
  /\ Receive(tag)
  /\ UNCHANGED <<calls, searches, robotRequest, aborted, fen, moves,
                 initialized, startupDone, output, errors, teardown, exited>>

LineDebug == NoOpLine("Debug")
LineSetOption == NoOpLine("SetOption")
LinePonderHit == NoOpLine("Ponderhit")
LineRegister == NoOpLine("Register")

\* "ucinewgame": onNewGame.
LineNewGame ==
  /\ Receive("UCINewGame")
  /\ fen' = startFen
  /\ moves' = <<>>
  /\ UNCHANGED <<calls, searches, robotRequest, aborted, initialized,
                 startupDone, output, errors, teardown, exited>>

\* "position ...": onLoadPosition(position, moves).
Positions == {[tag |-> "StartPos"]} \cup {[tag |-> "FEN", fen |-> f] : f \in Fens}

onLoadPositionNoStartPos(position) ==
  IF position.tag = "FEN" THEN position.fen ELSE fen

onLoadPosition(position) ==
  IF position.tag = "FEN" THEN position.fen ELSE startFen

LinePosition ==
  \E position \in Positions, ms \in MoveLists :
    /\ ReceiveWith("Position", [position |-> position, moves |-> ms])
    /\ fen' = onLoadPosition(position)
    /\ moves' = ms
    /\ UNCHANGED <<calls, searches, robotRequest, aborted, initialized,
                   startupDone, output, errors, teardown, exited>>

\* ------------------------------------------------------------------ onGo
\* The record of one robot request started by onGo.
\*   st    : state of this.robotRequest ("pending", "resolved" with the
\*           robot's text, "failed" by a network error, "aborted")
\*   stage : where the onGo call stands ("asking" at await robotRequest,
\*           "info" / "bestmove" at the await of that write, "done")
\*   stopped : a "stop" line was dispatched while the request was pending
\*   reply : what the robot sent ("late": after the request was aborted)
\*   timedOut : the move time of the Go ran out while the request was pending
Search(go, st, stage, board, turn, atStart, warned, replayErr) ==
  [go |-> go, st |-> st, stage |-> stage, board |-> board, turn |-> turn,
   abortedAtStart |-> atStart, warned |-> warned, replayErr |-> replayErr,
   stopped |-> FALSE, reply |-> "none", lan |-> "none", timedOut |-> FALSE]

\* onGo line 204: a robot request is already registered.
goNeverActive(rr) == FALSE

goWhileActive(rr) == rr # 0

\* fetch with a signal that is already aborted rejects at once.
fetchRejectsAtOnce(sig) == sig

\* "go" while a request is registered: process.exit(1).
LineGoFatal ==
  /\ Receive("Go")
  /\ goWhileActive(robotRequest)
  /\ exited' = "exit1"
  /\ UNCHANGED <<calls, searches, robotRequest, aborted, fen, moves,
                 initialized, startupDone, output, errors, teardown>>

\* "go" with a FEN chess.load rejects: loadBoard throws out of onGo before
\* the request is made; wrapStrErr turns it into an error-channel write.
LineGoThrows ==
  /\ Receive("Go")
  /\ ~goWhileActive(robotRequest)
  /\ loadBoardThrows(fen)
  /\ errors' = errors + 1
  /\ UNCHANGED <<calls, searches, robotRequest, aborted, fen, moves,
                 initialized, startupDone, output, teardown, exited>>

\* "go" accepted: the board is replayed, the request is sent and registered.
\* With the signal already aborted the request rejects in the same turn:
\* the catch logs it and the finally clears this.robotRequest.
LineGo ==
  /\ Receive("Go")
  /\ ~goWhileActive(robotRequest)
  /\ ~loadBoardThrows(fen)
  /\ LET s == Search(nlines + 1,
                     IF fetchRejectsAtOnce(aborted) THEN "aborted" ELSE "pending",
                     IF fetchRejectsAtOnce(aborted) THEN "done" ELSE "asking",
                     loadBoard(fen, moves), turnOf(fen), aborted,
                     ~initialized, ReplayFails(fen, moves))
     IN  /\ searches' = Append(searches, s)
         /\ robotRequest' =
              IF fetchRejectsAtOnce(aborted) THEN 0 ELSE Len(searches) + 1
  /\ UNCHANGED <<calls, aborted, fen, moves, initialized, startupDone,
                 output, errors, teardown, exited>>

\* The request settles without a move for the client: the catch logs, the
\* finally clears this.robotRequest, the waiting onReadyProbe calls resume.
settleKeepsSlot(ss, s, st, reply) ==
  /\ searches' = [ss EXCEPT ![s].st = st, ![s].stage = "done",
                            ![s].reply = reply]
  /\ UNCHANGED robotRequest
  /\ calls' = resume(calls, "IsReady", s, nlines)
  /\ output' = output \o readyOks(calls, s)

settleNoResult(ss, s, st, reply) ==
  /\ searches' = [ss EXCEPT ![s].st = st, ![s].stage = "done",
                            ![s].reply = reply]
  /\ robotRequest' = 0
  /\ calls' = resume(calls, "IsReady", s, nlines)
  /\ output' = output \o readyOks(calls, s)

\* The robot answers: res.text() resolves with its text.  onGo resumes
\* first (sanToLan, then the info write), the waiting onReadyProbe calls next.
RobotResolves ==
  /\ exited = "running"
  /\ robotRequest # 0
  /\ searches[robotRequest].st = "pending"
  /\ \E reply \in {"move", "junk"} :
       IF sanToLanThrows(reply, searches[robotRequest].board, fen, moves)
       THEN settleNoResult(searches, robotRequest, "resolved", reply)
       ELSE /\ searches' = [searches EXCEPT
                 ![robotRequest].st = "resolved",
                 ![robotRequest].stage = "info",
                 ![robotRequest].reply = reply,
                 ![robotRequest].lan = sanToLan(fen, moves)]
            /\ calls' = resume(calls, "IsReady", robotRequest, nlines)
            /\ output' = (output \o <<infoLine(searches[robotRequest].go)>>)
                           \o readyOks(calls, robotRequest)
            /\ UNCHANGED robotRequest
  /\ UNCHANGED <<lastArg, input, result>>
  /\ UNCHANGED <<nlines, last, aborted, fen, moves, initialized, startupDone,
                 errors, teardown, exited>>

\* The request fails on its own (connection refused, reset, ...).
RobotFails ==
  /\ exited = "running"
  /\ robotRequest # 0
  /\ searches[robotRequest].st = "pending"
  /\ settleNoResult(searches, robotRequest, "failed", "none")
  /\ UNCHANGED <<lastArg, input, result>>
  /\ UNCHANGED <<nlines, last, aborted, fen, moves, initialized, startupDone,
                 errors, teardown, exited>>

\* The robot answers a request that was aborted while it was pending: the
\* promise of the request is already rejected, so nothing resumes.
RobotRepliesLate ==
  /\ exited = "running"
  /\ \E s \in DOMAIN searches :
       /\ searches[s].st = "aborted"
       /\ ~searches[s].abortedAtStart
       /\ searches[s].reply = "none"
       /\ searches' = [searches EXCEPT ![s].reply = "late"]
  /\ UNCHANGED <<lastArg, input, result>>
  /\ UNCHANGED <<nlines, last, calls, robotRequest, aborted, fen, moves,
                 initialized, startupDone, output, errors, teardown, exited>>

\* The move time of the Go (its movetime parameter, else
\* defaultMoveTimeoutMs) runs out while the request is pending.  The timeout
\* promise of onGo is commented out, so no timer exists and nothing resumes.
MoveTimeElapses ==
  /\ exited = "running"
  /\ robotRequest # 0
  /\ searches[robotRequest].st = "pending"
  /\ ~searches[robotRequest].timedOut
  /\ searches' = [searches EXCEPT ![robotRequest].timedOut = TRUE]
  /\ UNCHANGED <<lastArg, input, result>>
  /\ UNCHANGED <<nlines, last, calls, robotRequest, aborted, fen, moves,
                 initialized, startupDone, output, errors, teardown, exited>>

\* The completion callback of the write onGo awaits: after the info line
\* the bestmove line is written, after the bestmove line the finally
\* clears this.robotRequest.
WriteDone ==
  /\ exited = "running"
  /\ robotRequest # 0
  /\ \/ /\ searches[robotRequest].stage = "info"
        /\ searches' = [searches EXCEPT ![robotRequest].stage = "bestmove"]
        /\ output' = Append(output, bestMoveLine(searches[robotRequest].go,
                                                 searches[robotRequest].lan))
        /\ UNCHANGED robotRequest
     \/ /\ searches[robotRequest].stage = "bestmove"
        /\ searches' = [searches EXCEPT ![robotRequest].stage = "done"]
        /\ robotRequest' = 0
        /\ UNCHANGED output
  /\ UNCHANGED <<lastArg, input, result>>
  /\ UNCHANGED <<nlines, last, calls, aborted, fen, moves, initialized,
                 startupDone, errors, teardown, exited>>

\* ---------------------------------------------------------------- onStop
\* onStop: this.abortController.abort().
onStopNoAbort(sig) == sig

onStop(sig) == TRUE

\* An abort rejects the request while fetch or res.text() is pending.
LineStop ==
  /\ Receive("Stop")
  /\ aborted' = onStop(aborted)
  /\ IF robotRequest # 0 /\ searches[robotRequest].st = "pending"
     THEN LET ss == [searches EXCEPT ![robotRequest].stopped = TRUE]
          IN  IF aborted'
              THEN settleNoResult(ss, robotRequest, "aborted", "none")
              ELSE /\ searches' = ss
                   /\ UNCHANGED <<robotRequest, calls, output>>
     ELSE UNCHANGED <<searches, robotRequest, calls, output>>
  /\ UNCHANGED <<fen, moves, initialized, startupDone, errors, teardown,
                 exited>>

\* ---------------------------------------------------------------- onQuit
\* onQuit: this.onQuit_() is started and not awaited, then process.exit(0).
LineQuit ==
  /\ Receive("Quit")
  /\ teardown' = "started"
  /\ exited' = "exit0"
  /\ UNCHANGED <<calls, searches, robotRequest, aborted, fen, moves,
                 initialized, startupDone, output, errors>>

\* -------------------------------------------------------------------- Next
Next ==
  \/ LineUnparsable
  \/ LineUci
  \/ LineDebug
  \/ LineIsReady
  \/ LineSetOption
  \/ LineRegister
  \/ LineNewGame
  \/ LinePosition
  \/ LineGoFatal
  \/ LineGoThrows
  \/ LineGo
  \/ LineStop
  \/ LinePonderHit
  \/ LineQuit
  \/ StartupDone
  \/ RobotResolves
  \/ RobotFails
  \/ RobotRepliesLate
  \/ MoveTimeElapses
  \/ WriteDone

Spec == Init /\ [][Next]_vars

\* The output stream completes every write it accepted.
FairSpec == Spec /\ WF_vars(WriteDone)

TypeOK ==
  /\ nlines \in 0..MaxLines
  /\ robotRequest \in 0..Len(searches)
  /\ aborted \in BOOLEAN
  /\ fen \in Fens
  /\ moves \in MoveLists
  /\ exited \in {"running", "exit0", "exit1"}

\* ================================================================ claims
Written(text, id) ==
  Cardinality({i \in DOMAIN output : output[i].id = id /\ output[i].text = text})

IsReadyCalls == {i \in DOMAIN calls : calls[i].cmd = "IsReady"}

Dispatched(tag) == nlines' = nlines + 1 /\ last' = tag

C2_StopNoBestMove ==
  \A s \in DOMAIN searches :
    searches[s].stopped =>
      /\ Written("bestmove", searches[s].go) = 0
      /\ Written("info", searches[s].go) = 0

C2_Witness ==
  \E s \in DOMAIN searches :
    /\ searches[s].stopped
    /\ searches[s].reply = "late"
    /\ Written("bestmove", searches[s].go) = 0

\* C3: at most one request is in flight, it is the registered one, and a Go
\* dispatched while a request is registered starts no request and exits the
\* process; after the exit nothing changes any more.
InFlight == {s \in DOMAIN searches : searches[s].stage # "done"}

C3_ExclusiveSlot ==
  /\ [](Cardinality(InFlight) <= 1 /\ InFlight \subseteq {robotRequest})
  /\ [][Dispatched("Go") /\ robotRequest # 0 =>
          exited' = "exit1" /\ searches' = searches]_vars
  /\ [][exited # "running" => UNCHANGED vars]_vars

C3_Witness ==
  /\ exited = "exit1"
  /\ last = "Go"
  /\ Cardinality(InFlight) = 1

\* The command kind a line of the output answers.
CmdOf(l) ==
  IF l.text = "readyok" THEN "IsReady"
  ELSE IF l.text \in {"info", "bestmove"} THEN "Go"
  ELSE "UCI"

CallOf(id) == CHOOSE c \in {calls[i] : i \in DOMAIN calls} : c.id = id

\* C4 (as stated): the lines of the non-Go commands appear in the output in
\* the order the commands were received.
C4_OutputInReceiveOrder ==
  \A i, j \in DOMAIN output :
    (i < j /\ CmdOf(output[i]) # "Go" /\ CmdOf(output[j]) # "Go")
      => output[i].id <= output[j].id

\* C4 (amended): lines answering commands of the same kind (readyok for
\* IsReady, the identity block for Uci) appear in the order those commands
\* were received; every command's lines are written once.
C4_SameKindInOrder ==
  \A i, j \in DOMAIN output :
    (i < j /\ CmdOf(output[i]) # "Go" /\ CmdOf(output[i]) = CmdOf(output[j]))
      => output[i].id <= output[j].id

C4_Witness ==
  \E i, j \in DOMAIN output :
    /\ i < j
    /\ output[i].text = "readyok" /\ output[j].text = "readyok"
    /\ output[i].id < output[j].id
    /\ CallOf(output[i].id).waited /\ CallOf(output[j].id).waited
    /\ CallOf(output[i].id).on = CallOf(output[j].id).on

C7_FreshSignalPerSearch ==
  \A s \in DOMAIN searches :
    /\ ~searches[s].abortedAtStart
    /\ searches[s].st = "aborted" => searches[s].stopped

\* C8: while an IsReady waits on the registered request, a Stop can be
\* dispatched; it triggers the signal, the request settles as aborted and
\* every waiting IsReady gets its single readyok.
HasWaiter ==
  /\ robotRequest # 0
  /\ \E i \in IsReadyCalls : IsWaiter(calls[i], "IsReady", robotRequest)

WaiterIds == {calls[i].id : i \in {k \in IsReadyCalls :
                                     IsWaiter(calls[k], "IsReady", robotRequest)}}

C8_StopReachesWaitedSearch ==
  /\ []((HasWaiter /\ exited = "running" /\ nlines < MaxLines)
          => ENABLED LineStop)
  /\ [][(Dispatched("Stop") /\ HasWaiter) =>
          /\ aborted'
          /\ searches'[robotRequest].st = "aborted"
          /\ robotRequest' = 0
          /\ \A id \in WaiterIds :
               Cardinality({k \in DOMAIN output' :
                  output'[k].id = id /\ output'[k].text = "readyok"}) = 1]_vars

C8_Witness ==
  \E i \in IsReadyCalls :
    /\ calls[i].waited
    /\ calls[i].st = "done"
    /\ searches[calls[i].on].stopped
    /\ searches[calls[i].on].st = "aborted"
    /\ Written("readyok", calls[i].id) = 1

\* C9: once the request of an accepted Go has settled, this.robotRequest is
\* eventually cleared (unless the process exits first), a Go dispatched
\* with the slot clear is not fatal, and a request that failed or was
\* aborted leaves no line in the output.
Cleared(s) == searches[s].stage = "done" /\ robotRequest # s

C9_SettledClears ==
  /\ \A s \in 1..MaxLines :
       (s \in DOMAIN searches /\ searches[s].st # "pending")
         ~> ((s \in DOMAIN searches /\ Cleared(s)) \/ exited # "running")
  /\ [][(Dispatched("Go") /\ robotRequest = 0) => exited' = "running"]_vars
  /\ [](\A s \in DOMAIN searches :
          searches[s].st \in {"failed", "aborted"} =>
            \A k \in DOMAIN output : output[k].id # searches[s].go)

C9_Witness ==
  /\ Len(searches) = 2
  /\ searches[1].st = "failed"
  /\ Cleared(1)
  /\ searches[2].go > searches[1].go
  /\ exited = "running"

\* C10: when the request of an accepted Go resolves with a move of the
\* position it was sent and no Stop was dispatched during it, the finished
\* onGo call has written a bestmove line.
C10_ResolvedGivesBestMove ==
  \A s \in DOMAIN searches :
    (/\ searches[s].st = "resolved"
     /\ searches[s].reply = "move"
     /\ ~searches[s].stopped
     /\ searches[s].stage = "done")
      => Written("bestmove", searches[s].go) = 1

\* C11: a request whose move time has run out is cancelled without a Stop:
\* its slot is eventually cleared (and with it every waiting IsReady is
\* answered), unless the process exits first.
C11_TimeoutCancels ==
  \A s \in 1..MaxLines :
    (s \in DOMAIN searches /\ searches[s].timedOut)
      ~> ((s \in DOMAIN searches /\ Cleared(s)) \/ exited # "running")

\* C12: the lines of a Uci command are id name, id author, one option line
\* per advertised option in advertised order, then uciok, written together,
\* and only once onInit has completed and the session is initialized.
LinesOf(id) == SelectSeq(output, LAMBDA l : l.id = id)

UciCalls == {i \in DOMAIN calls : calls[i].cmd = "UCI"}

C12_UciBlockAfterInit ==
  \A i \in UciCalls :
    LET ls == LinesOf(calls[i].id)
        n  == Len(AdvertiseOptions)
    IN  IF calls[i].st = "pending"
        THEN ls = <<>>
        ELSE /\ startupDone
             /\ initialized
             /\ Len(ls) = n + 3
             /\ ls[1].text = "id name" /\ ls[1].arg = EngineName
             /\ ls[2].text = "id author" /\ ls[2].arg = EngineName
             /\ \A k \in 1..n :
                  ls[2 + k].text = "option" /\ ls[2 + k].arg = AdvertiseOptions[k]
             /\ ls[n + 3].text = "uciok"
             /\ \E k \in DOMAIN output :
                  \A j \in 1..(n + 3) :
                    k + j - 1 \in DOMAIN output /\ output[k + j - 1] = ls[j]

C12_Witness ==
  \E i \in UciCalls :
    /\ calls[i].waited
    /\ calls[i].st = "done"
    /\ calls[i].doneAt > calls[i].id
    /\ Written("uciok", calls[i].id) = 1

\* C13: when the process has exited on Quit, the teardown capability has
\* completed and no line was written for the Quit.
C13_TeardownBeforeExit ==
  exited = "exit0" =>
    /\ teardown = "done"
    /\ \A k \in DOMAIN output : output[k].id # nlines

\* C14: Position stores exactly its position and move list, NewGame stores
\* the start position and the empty move list; neither starts or cancels a
\* request, touches the slot or the signal, or writes a line.
C14_PositionFrame ==
  /\ [][Dispatched("Position") =>
          /\ fen' = (IF lastArg'.position.tag = "FEN"
                     THEN lastArg'.position.fen ELSE startFen)
          /\ moves' = lastArg'.moves
          /\ UNCHANGED <<searches, robotRequest, aborted, output, calls,
                         initialized, errors, exited>>]_vars
  /\ [][Dispatched("UCINewGame") =>
          /\ fen' = startFen
          /\ moves' = <<>>
          /\ UNCHANGED <<searches, robotRequest, aborted, output, calls,
                         initialized, errors, exited>>]_vars

C14_Witness ==
  /\ last = "Position"
  /\ lastArg.position.tag = "StartPos"
  /\ lastArg.moves # <<>>
  /\ fen = startFen
  /\ moves = lastArg.moves
  /\ robotRequest # 0
  /\ searches[robotRequest].board # Replay(fen, moves)

\* C15: a Go dispatched before initialization with no request registered
\* is accepted: the warning is logged, a request is started and registered,
\* and the process keeps running.
C15_UninitializedGoAccepted ==
  [][(Dispatched("Go") /\ ~initialized /\ robotRequest = 0) =>
       /\ exited' = "running"
       /\ Len(searches') = Len(searches) + 1
       /\ searches'[Len(searches')].warned
       /\ searches'[Len(searches')].st = "pending" =>
            robotRequest' = Len(searches')]_vars

\* C16: a line that fails to parse writes one diagnostic to the error
\* channel and changes nothing else; the next line is still dispatched.
C16_ParseErrorOnlyDiagnostic ==
  /\ [][Dispatched("ParseError") =>
          /\ errors' = errors + 1
          /\ UNCHANGED <<calls, searches, robotRequest, aborted, fen, moves,
                         initialized, startupDone, output, teardown,
                         exited>>]_vars
  /\ []((last = "ParseError" /\ exited = "running" /\ nlines < MaxLines) =>
          /\ ENABLED LineIsReady
          /\ ENABLED LineUci
          /\ ENABLED LineGo \/ ENABLED LineGoFatal \/ ENABLED LineGoThrows)

C16_Witness ==
  /\ errors = 1
  /\ last = "IsReady"
  /\ nlines > 1
  /\ Written("readyok", nlines) = 1

\* C17: a Go accepted with a stored position that cannot be replayed (the
\* FEN does not load or a move of the list is illegal) is not fatal and
\* writes no protocol line: the replay diagnostic is logged and the request
\* is started from the position the replay reached.
C17_ReplayFailureTolerated ==
  [][(/\ Dispatched("Go")
      /\ robotRequest = 0
      /\ (loadBoardThrows(fen) \/ ReplayFails(fen, moves))) =>
       /\ exited' = "running"
       /\ output' = output
       /\ errors' = errors
       /\ Len(searches') = Len(searches) + 1
       /\ searches'[Len(searches')].replayErr
       /\ searches'[Len(searches')].board = Replay(fen, moves)]_vars

\* C31: an IsReady that waited on a search which resolved with a move has
\* its readyok in the output only behind the bestmove line of that search.
ResolvedWithMove(s) == searches[s].st = "resolved" /\ searches[s].lan # "none"

C31_BestMoveBeforeReadyOk ==
  \A i \in IsReadyCalls :
    (calls[i].waited /\ ResolvedWithMove(calls[i].on)) =>
      \A k \in DOMAIN output :
        (output[k].id = calls[i].id /\ output[k].text = "readyok") =>
          \E j \in 1..(k - 1) :
            /\ output[j].id = searches[calls[i].on].go
            /\ output[j].text = "bestmove"

\* C32: the move reported for a search that resolved with a move is the
\* move played on the position its Go was accepted with, whatever Position
\* or NewGame was dispatched meanwhile, and its bestmove line carries it.
C32_MoveOfAcceptedPosition ==
  \A s \in DOMAIN searches :
    (searches[s].st = "resolved" /\ searches[s].reply = "move") =>
      /\ searches[s].lan = MoveColour(searches[s].board)
      /\ searches[s].stage \in {"bestmove", "done"} =>
           /\ Written("bestmove", searches[s].go) = 1
           /\ \A k \in DOMAIN output :
                (output[k].id = searches[s].go /\ output[k].text = "bestmove")
                  => output[k].arg = MoveColour(searches[s].board)

\* C33: a Go is fatal exactly when it is dispatched while some search has
\* neither had its bestmove written nor failed nor been cancelled; once the
\* bestmove line of the last search is in the output a Go is accepted.
Outstanding(s) ==
  /\ searches[s].st \in {"pending", "resolved"}
  /\ searches[s].stage # "done"
  /\ Written("bestmove", searches[s].go) = 0

C34_TurnOfReplayedPosition ==
  \A s \in DOMAIN searches : searches[s].turn = turnOf(searches[s].board)

\* ================================================================ parser
\* Text is a sequence of one-character strings.  A parser applied to a text
\* yields Ok(value, rest) or Fail(error); an error is the sequence of the
\* parts of its message.
Ok(v, rest) == [ok |-> TRUE, val |-> v, rest |-> rest]
Fail(e) == [ok |-> FALSE, err |-> e]

slice(x, n) == SubSeq(x, n + 1, Len(x))
startsWith(x, pre) == Len(pre) <= Len(x) /\ SubSeq(x, 1, Len(pre)) = pre

RECURSIVE join(_)
join(xs) == IF xs = <<>> THEN <<>> ELSE Head(xs) \o join(Tail(xs))

\* A parser handed to a combinator is named by a reference; run applies the
\* parser a reference names.
Ref(name) == [f |-> name]
RefNoneOf(cs) == [f |-> "noneOf", cs |-> cs]
RefThen(a, b) == [f |-> "then", a |-> a, b |-> b]

RECURSIVE run(_, _)

\* ------------------------------------------------------------ Parser monad
of(a, x) == Ok(a, x)

map(r, f(_)) == IF r.ok THEN Ok(f(r.val), r.rest) ELSE r

chain(r, f(_, _)) == IF r.ok THEN f(r.val, r.rest) ELSE r

\* _alt: E.alt keeps a Right and otherwise takes the second parser's result.
alt(ra, rb) == IF ra.ok THEN ra ELSE rb

zero == Fail(<<"zero">>)

RECURSIVE manyLoop(_, _, _, _)
manyLoop(p, as, rest, e) ==
  IF e.ok /\ Len(rest) > 0
  THEN manyLoop(p, Append(as, e.val), e.rest, run(p, e.rest))
  ELSE Ok(as, rest)

many(p, x) == manyLoop(p, <<>>, x, run(p, x))

\* ------------------------------------------------------------ combinators
many1(p, x) ==
  chain(run(p, x), LAMBDA h, r1 :
    map(many(p, r1), LAMBDA t : <<h>> \o t))

\* ps.reduceRight((a, b) => alt(a, () => b), zero()): the accumulator starts
\* as zero and takes the alternatives from the last to the first, each time
\* as the fallback of what was accumulated.  rs holds the alternatives'
\* results on the input.
RECURSIVE reduceRight(_, _)
reduceRight(rs, acc) ==
  IF rs = <<>> THEN acc
  ELSE reduceRight(SubSeq(rs, 1, Len(rs) - 1), alt(acc, rs[Len(rs)]))

choice(rs) == reduceRight(rs, zero)

sepBy1(p, sep, x) ==
  chain(run(p, x), LAMBDA h, r1 :
    map(many(RefThen(sep, p), r1), LAMBDA xs : <<h>> \o xs))

sepBy(p, sep, x) == alt(sepBy1(p, sep, x), of(<<>>, x))

option(a, r, x) == alt(r, of(a, x))

optional(r) == map(r, LAMBDA v : "undefined")

flat(r) == map(r, join)

RECURSIVE manyTill(_, _, _)
manyTill(end, p, x) ==
  alt(map(run(end, x), LAMBDA e : <<>>),
      chain(run(p, x), LAMBDA h, r1 :
        map(manyTill(end, p, r1), LAMBDA t : <<h>> \o t)))

lookahead(r, x) == IF r.ok THEN Ok(r.val, x) ELSE r

expected(msg, r) ==
  IF r.ok THEN r ELSE Fail(<<"Expected", msg, "but:">> \o r.err)

\* --------------------------------------------------------- string parsers
\* A predicate on characters is a set of characters and whether it holds
\* of the members of the set or of the others.
Pred(cs, includes) == [cs |-> cs, includes |-> includes]

satisfy(desc, pred, x) ==
  IF Len(x) = 0 THEN Fail(<<"Expected", desc, "but got EOF">>)
  ELSE IF (x[1] \in pred.cs) = pred.includes THEN Ok(<<x[1]>>, slice(x, 1))
  ELSE Fail(<<"Expected", desc, "but got", x[1]>>)

oneOf(cs, x) == satisfy("one of", Pred(cs, TRUE), x)
noneOf(cs, x) == satisfy("none of", Pred(cs, FALSE), x)
char(ch, x) == satisfy("character", Pred({ch}, TRUE), x)

anyCharNoSpace(x) == satisfy("anything", Pred({" "}, FALSE), x)

anyChar(x) == satisfy("anything", Pred({}, FALSE), x)

str(k, x) ==
  IF startsWith(x, k) THEN Ok(k, slice(x, Len(k))) ELSE Fail(<<"Expected">> \o k)

whitespace(x) == oneOf({"\n", "\t", "\r", " "}, x)
whitespaces(x) == flat(many(Ref("whitespace"), x))
newline(x) == choice(<<char("\n", x), str(<<"\r", "\n">>, x)>>)
eof(x) == IF Len(x) = 0 THEN Ok(<<>>, x) ELSE Fail(<<"Expected EOF">>)

Digits == <<"0", "1", "2", "3", "4", "5", "6", "7", "8", "9">>
digit(x) == oneOf({Digits[i] : i \in DOMAIN Digits}, x)

\* ---------------------------------------------------------- UCI utilities
onP(x) == map(str(<<"o", "n">>, x), LAMBDA v : "true")
offP(x) == map(str(<<"f", "a", "l", "s", "e">>, x), LAMBDA v : "false")
onOff(x) == choice(<<onP(x), offP(x)>>)

wordEnd(x) == lookahead(choice(<<whitespace(x), eof(x)>>), x)
word(x) == flat(manyTill(Ref("wordEnd"), RefNoneOf({" "}), x))

words(x) == sepBy(Ref("word"), Ref("whitespaces"), x)

\* +x of a string of decimal digits.
RECURSIVE toNumber(_, _)
toNumber(ds, acc) ==
  IF ds = <<>> THEN acc
  ELSE toNumber(Tail(ds),
                10 * acc + (CHOOSE i \in DOMAIN Digits : Digits[i] = Head(ds)) - 1)

natural(x) ==
  expected("natural number",
           map(flat(many1(Ref("digit"), x)), LAMBDA ds : toNumber(ds, 0)))

int(x) ==
  expected("integer",
    chain(option(<<"+">>, oneOf({"-", "+"}, x), x), LAMBDA sign, r1 :
      map(natural(r1), LAMBDA n : IF sign = <<"+">> THEN n ELSE 0 - n)))

\* A number is its integer part and the digits after its decimal point,
\* read as a natural without trailing zeros (0: none).
RECURSIVE stripZeros(_)
stripZeros(n) == IF n > 0 /\ n % 10 = 0 THEN stripZeros(n \div 10) ELSE n

Number(whole, frac) == [whole |-> whole, frac |-> stripZeros(frac)]

\* parseFloat of left, the dot and right written back as text: right is a
\* number by then, so the zeros it had in front are gone.
floating(x) ==
  expected("floating point number",
    chain(int(x), LAMBDA left, r1 :
      chain(char(".", r1), LAMBDA dot, r2 :
        map(natural(r2), LAMBDA right : Number(left, right)))))

naturalNumber(x) == map(natural(x), LAMBDA n : Number(n, 0))

numeric(x) == choice(<<floating(x), naturalNumber(x)>>)

RECURSIVE skipGarbage(_, _)
skipGarbage(p, x) ==
  alt(run(p, x), chain(anyChar(x), LAMBDA c, r : skipGarbage(p, r)))

\* ----------------------------------------------------- sub-command parsers
move(x) == word(x)
movesP(x) == sepBy(Ref("move"), Ref("whitespaces"), x)

\* A keyword and the whitespace that follows it.
keyword(k, x) == chain(str(k, x), LAMBDA v, r : whitespaces(r))

lineEnd(x) == choice(<<newline(x), eof(x)>>)
restOfLine(x) == flat(manyTill(Ref("lineEnd"), RefNoneOf({"\n"}), x))

uciSetOptionValue(x) ==
  chain(keyword(<<"v", "a", "l", "u", "e">>, x), LAMBDA w, r : restOfLine(r))

valueAhead(x) == chain(whitespaces(x), LAMBDA w, r : str(<<"v", "a", "l", "u", "e">>, r))

idEnd(x) == lookahead(choice(<<valueAhead(x), newline(x), eof(x)>>), x)

uciSetOptionId(x) ==
  chain(keyword(<<"n", "a", "m", "e">>, x), LAMBDA w, r :
    flat(manyTill(Ref("idEnd"), RefNoneOf({"\n"}), r)))

fenEnd(x) == lookahead(choice(<<str(<<"m", "o", "v", "e", "s">>, x), newline(x), eof(x)>>), x)

uciPositionFen(x) ==
  chain(keyword(<<"f", "e", "n">>, x), LAMBDA w, r :
    map(flat(manyTill(Ref("fenEnd"), RefNoneOf({"\n"}), r)),
        LAMBDA f : [tag |-> "FEN", fen |-> f]))

uciPositionStartPos(x) ==
  map(str(<<"s", "t", "a", "r", "t", "p", "o", "s">>, x), LAMBDA v : [tag |-> "StartPos"])

uciPositionMoves(x) == chain(keyword(<<"m", "o", "v", "e", "s">>, x), LAMBDA w, r : movesP(r))

uciRegisterLater(x) == map(str(<<"l", "a", "t", "e", "r">>, x), LAMBDA v : [tag |-> "Later"])

uciRegisterName(x) ==
  chain(keyword(<<"n", "a", "m", "e">>, x), LAMBDA w, r :
    map(restOfLine(r), LAMBDA n : [tag |-> "Name", name |-> n]))

uciRegisterCode(x) ==
  chain(keyword(<<"c", "o", "d", "e">>, x), LAMBDA w, r :
    map(restOfLine(r), LAMBDA n : [tag |-> "Code", code |-> n]))

uciRegister(x) ==
  choice(<<uciRegisterLater(x), uciRegisterCode(x), uciRegisterName(x)>>)

uciGoSearchMovesParameter(x) ==
  chain(keyword(<<"s", "e", "a", "r", "c", "h", "m", "o", "v", "e", "s">>, x), LAMBDA w, r :
    map(movesP(r), LAMBDA ms : [tag |-> "SearchMoves", moves |-> ms]))

uciGoPonderParameter(x) == map(str(<<"p", "o", "n", "d", "e", "r">>, x), LAMBDA v : [tag |-> "Ponder"])

\* A keyword, whitespace, then a number.
numericParameter(k, x) == chain(keyword(k, x), LAMBDA w, r : numeric(r))

uciGoWTimeParameter(x) ==
  map(numericParameter(<<"w", "t", "i", "m", "e">>, x), LAMBDA n : [tag |-> "WTime", time |-> n])

uciGoBTimeParameter(x) ==
  map(numericParameter(<<"b", "t", "i", "m", "e">>, x), LAMBDA n : [tag |-> "BTime", time |-> n])

uciGoWIncParameter(x) ==
  map(numericParameter(<<"w", "i", "n", "c">>, x), LAMBDA n : [tag |-> "WInc", time |-> n])

uciGoBIncParameter(x) ==
  map(numericParameter(<<"b", "i", "n", "c">>, x), LAMBDA n : [tag |-> "BInc", time |-> n])

uciGoMovesToGoParameter(x) ==
  map(numericParameter(<<"m", "o", "v", "e", "s", "t", "o", "g", "o">>, x),
      LAMBDA n : [tag |-> "MovesToGo", n |-> n])

uciGoDepthParameter(x) ==
  map(numericParameter(<<"d", "e", "p", "t", "h">>, x), LAMBDA n : [tag |-> "Depth", depth |-> n])

uciGoNodesParameter(x) ==
  map(numericParameter(<<"n", "o", "d", "e", "s">>, x), LAMBDA n : [tag |-> "Nodes", nodes |-> n])

uciGoMateParameter(x) ==
  map(numericParameter(<<"m", "a", "t", "e">>, x), LAMBDA n : [tag |-> "Mate", n |-> n])

uciGoMoveTimeParameter(x) ==
  map(numericParameter(<<"m", "o", "v", "e", "t", "i", "m", "e">>, x),
      LAMBDA n : [tag |-> "MoveTime", time |-> n])

uciGoInfiniteParameter(x) ==
  map(str(<<"i", "n", "f", "i", "n", "i", "t", "e">>, x), LAMBDA v : [tag |-> "Infinite"])

uciGoParameter(x) ==
  choice(<<uciGoSearchMovesParameter(x), uciGoPonderParameter(x),
           uciGoWTimeParameter(x), uciGoBTimeParameter(x),
           uciGoWIncParameter(x), uciGoBIncParameter(x),
           uciGoMovesToGoParameter(x), uciGoDepthParameter(x),
           uciGoNodesParameter(x), uciGoMateParameter(x),
           uciGoMoveTimeParameter(x), uciGoInfiniteParameter(x)>>)

\* ------------------------------------------------------- UCIEngineCommand
uciUciCmd(x) ==
  expected("uci", map(str(<<"u", "c", "i">>, x), LAMBDA v : [tag |-> "UCI"]))

uciDebugCmd(x) ==
  expected("debug [on|off]",
    chain(keyword(<<"d", "e", "b", "u", "g">>, x), LAMBDA w, r :
      map(option("undefined", onOff(r), r),
          LAMBDA o : [tag |-> "Debug", on |-> o])))

uciIsReadyCmd(x) ==
  expected("isready", map(str(<<"i", "s", "r", "e", "a", "d", "y">>, x), LAMBDA v : [tag |-> "IsReady"]))

uciSetOptionCmd(x) ==
  expected("setoption name <id> [value <x>]",
    chain(keyword(<<"s", "e", "t", "o", "p", "t", "i", "o", "n">>, x), LAMBDA w1, r1 :
      chain(uciSetOptionId(r1), LAMBDA name, r2 :
        chain(whitespaces(r2), LAMBDA w2, r3 :
          map(uciSetOptionValue(r3), LAMBDA value :
            [tag |-> "SetOption", name |-> name, value |-> value])))))

uciRegisterCmd(x) ==
  expected("register [parameter]",
    chain(keyword(<<"r", "e", "g", "i", "s", "t", "e", "r">>, x), LAMBDA w, r :
      map(uciRegister(r), LAMBDA reg :
        [tag |-> "Register", register |-> reg])))

uciNewGameCmd(x) ==
  expected("ucinewgame",
           map(str(<<"u", "c", "i", "n", "e", "w", "g", "a", "m", "e">>, x), LAMBDA v : [tag |-> "UCINewGame"]))

uciPositionCmd(x) ==
  expected("position [fen <fenstring> | startpos ]  moves <move1> .... <movei>",
    chain(keyword(<<"p", "o", "s", "i", "t", "i", "o", "n">>, x), LAMBDA w1, r1 :
      chain(choice(<<uciPositionFen(r1), uciPositionStartPos(r1)>>),
            LAMBDA pos, r2 :
        chain(whitespaces(r2), LAMBDA w2, r3 :
          map(option(<<>>, uciPositionMoves(r3), r3), LAMBDA ms :
            [tag |-> "Position", position |-> pos, moves |-> ms])))))

uciGoCmd(x) ==
  expected("go [parameters]",
    chain(keyword(<<"g", "o">>, x), LAMBDA w, r :
      map(sepBy(Ref("uciGoParameter"), Ref("whitespaces"), r), LAMBDA ps :
        [tag |-> "Go", params |-> ps])))

uciStopCmd(x) ==
  expected("stop", map(str(<<"s", "t", "o", "p">>, x), LAMBDA v : [tag |-> "Stop"]))

uciPonderhitCmd(x) ==
  expected("ponderhit",
           map(str(<<"p", "o", "n", "d", "e", "r", "h", "i", "t">>, x), LAMBDA v : [tag |-> "Ponderhit"]))

uciQuitCmd(x) ==
  expected("quit", map(str(<<"q", "u", "i", "t">>, x), LAMBDA v : [tag |-> "Quit"]))

uciEngineCmdUciFirst(x) ==
  choice(<<uciDebugCmd(x), uciIsReadyCmd(x), uciSetOptionCmd(x),
           uciRegisterCmd(x), uciNewGameCmd(x), uciPositionCmd(x), uciGoCmd(x),
           uciStopCmd(x), uciPonderhitCmd(x), uciQuitCmd(x), uciUciCmd(x)>>)

uciEngineCmd(x) ==
  choice(<<uciUciCmd(x), uciDebugCmd(x), uciIsReadyCmd(x), uciSetOptionCmd(x),
           uciRegisterCmd(x), uciNewGameCmd(x), uciPositionCmd(x), uciGoCmd(x),
           uciStopCmd(x), uciPonderhitCmd(x), uciQuitCmd(x)>>)

uciEngineCmdNoEOF(x) == uciEngineCmd(x)

uciEngineCmdEOF(x) ==
  chain(uciEngineCmd(x), LAMBDA cmd, r1 :
    chain(whitespaces(r1), LAMBDA w, r2 :
      map(eof(r2), LAMBDA e : cmd)))

\* The parser a reference names, applied to x.
run(p, x) ==
  CASE p.f = "then" -> chain(run(p.a, x), LAMBDA v, r : run(p.b, r))
    [] p.f = "noneOf" -> noneOf(p.cs, x)
    [] p.f = "whitespace" -> whitespace(x)
    [] p.f = "whitespaces" -> whitespaces(x)
    [] p.f = "digit" -> digit(x)
    [] p.f = "word" -> word(x)
    [] p.f = "move" -> move(x)
    [] p.f = "wordEnd" -> wordEnd(x)
    [] p.f = "lineEnd" -> lineEnd(x)
    [] p.f = "idEnd" -> idEnd(x)
    [] p.f = "fenEnd" -> fenEnd(x)
    [] p.f = "uciGoParameter" -> uciGoParameter(x)
    [] p.f = "uciEngineCmdEOF" -> uciEngineCmdEOF(x)

\* E.map(([c, _]) => c): the command alone, or the error.
command(r) == IF r.ok THEN [ok |-> TRUE, val |-> r.val] ELSE r

parseUCIEngineCmd(x) ==
  command(expected("proper command eventually",
                   skipGarbage(Ref("uciEngineCmdEOF"), x)))

\* ------------------------------------------------- parser specification
\* The parsers, the combinators and the serializers are pure functions: the
\* specification draws an input, applies the function once and records what
\* it returned.
MaxAlts == 3
MaxNoise == 1

\* What an alternative of a choice can return on the input at hand.
Outcomes ==
  {Ok(<<"a">>, <<>>), Ok(<<"b">>, <<"x">>), Fail(<<"e1">>), Fail(<<"e2">>)}

ChoiceInputs ==
  {[kind |-> "choice", alts |-> rs] : rs \in SeqsUpTo(Outcomes, MaxAlts)}

NoiseFragments ==
  {<<"x">>, <<" ">>, <<"g", "o", " ">>, <<"p", "o", "s", "i", "t", "i", "o">>, <<"i", "s", "r", "e", "a", "d", "y">>, <<"p", "o", "s", "i", "t", "i", "o", "n", " ", "s", "t", "a", "r", "t", "p", "o", "s", " ", "m", "o", "v", "e", "s", " ">>}

CommandLines ==
  {<<"u", "c", "i">>, <<"i", "s", "r", "e", "a", "d", "y">>, <<"u", "c", "i", "n", "e", "w", "g", "a", "m", "e">>, <<"s", "t", "o", "p">>, <<"q", "u", "i", "t", " ">>, <<" ", "p", "o", "n", "d", "e", "r", "h", "i", "t">>,
   <<"d", "e", "b", "u", "g", " ", "o", "n">>, <<"g", "o", " ", "d", "e", "p", "t", "h", " ", "3">>, <<"r", "e", "g", "i", "s", "t", "e", "r", " ", "l", "a", "t", "e", "r">>, <<"s", "e", "t", "o", "p", "t", "i", "o", "n", " ", "n", "a", "m", "e", " ", "a", " ", "v", "a", "l", "u", "e", " ", "b">>,
   <<"p", "o", "s", "i", "t", "i", "o", "n", " ", "s", "t", "a", "r", "t", "p", "o", "s", " ", "m", "o", "v", "e", "s", " ", "e", "2", "e", "4">>, <<"n", " ", "f", "e", "n", " ", "x", " ", "i", "s", "r", "e", "a", "d", "y">>, <<"g", "o", " ", "x", "y", "z">>}

\* Lines given to the parser without noise in front.
PlainLines ==
  {<<"u", "c", "i">>, <<"i", "s", "r", "e", "a", "d", "y">>, <<"u", "c", "i", "n", "e", "w", "g", "a", "m", "e">>, <<"s", "t", "o", "p">>, <<"p", "o", "n", "d", "e", "r", "h", "i", "t">>, <<"q", "u", "i", "t">>,
   <<"u", "c", "i", " ", "i", "s", "r", "e", "a", "d", "y">>, <<"g", "o", " ", "x", "y", "z">>, <<"s", "t", "o", "p", " ", "x">>,
   <<"d", "e", "b", "u", "g", " ", "o", "n">>, <<"d", "e", "b", "u", "g", " ", "o", "f", "f">>, <<"d", "e", "b", "u", "g">>, <<"d", "e", "b", "u", "g", " ", "f", "a", "l", "s", "e">>,
   <<"s", "e", "t", "o", "p", "t", "i", "o", "n", " ", "n", "a", "m", "e", " ", "a">>, <<"s", "e", "t", "o", "p", "t", "i", "o", "n", " ", "n", "a", "m", "e", " ", "a", " ", "v", "a", "l", "u", "e", " ", "b">>, <<"s", "e", "t", "o", "p", "t", "i", "o", "n", " ", "n", "a", "m", "e", " ", "a", " ", "b", " ", "v", "a", "l", "u", "e", " ", "c", " ", "d">>,
   <<"g", "o">>, <<"g", "o", " ", "d", "e", "p", "t", "h", " ", "1", "2", " ", "m", "o", "v", "e", "t", "i", "m", "e", " ", "5", "0", "0">>, <<"g", "o", " ", "i", "n", "f", "i", "n", "i", "t", "e">>, <<"g", "o", " ", "p", "o", "n", "d", "e", "r", " ", "w", "t", "i", "m", "e", " ", "1", " ", "b", "t", "i", "m", "e", " ", "2">>,
   <<"g", "o", " ", "s", "e", "a", "r", "c", "h", "m", "o", "v", "e", "s", " ", "e", "2", "e", "4", " ", "d", "2", "d", "4">>, <<"g", "o", " ", "s", "e", "a", "r", "c", "h", "m", "o", "v", "e", "s", " ", "e", "2", "e", "4", " ", "d", "2", "d", "4", " ", "d", "e", "p", "t", "h", " ", "3">>}

LineInputs ==
  {[kind |-> "line", g |-> join(gs), c |-> c] :
     gs \in SeqsUpTo(NoiseFragments, MaxNoise), c \in CommandLines}
  \cup {[kind |-> "line", g |-> <<>>, c |-> c] : c \in PlainLines}

\* A command as its tokens, and the whitespace written around and between
\* them: lead and trail characters at the ends, gap characters between two
\* tokens.
MaxGap == 2

TokenLists ==
  {<<<<"i", "s", "r", "e", "a", "d", "y">>>>, <<<<"d", "e", "b", "u", "g">>, <<"o", "n">>>>, <<<<"g", "o">>, <<"d", "e", "p", "t", "h">>, <<"3">>>>,
   <<<<"g", "o">>, <<"d", "e", "p", "t", "h">>, <<"3">>, <<"m", "o", "v", "e", "t", "i", "m", "e">>, <<"5">>>>,
   <<<<"p", "o", "s", "i", "t", "i", "o", "n">>, <<"s", "t", "a", "r", "t", "p", "o", "s">>>>, <<<<"p", "o", "s", "i", "t", "i", "o", "n">>, <<"s", "t", "a", "r", "t", "p", "o", "s">>, <<"m", "o", "v", "e", "s">>, <<"e", "2", "e", "4">>>>,
   <<<<"p", "o", "s", "i", "t", "i", "o", "n">>, <<"s", "t", "a", "r", "t", "p", "o", "s">>, <<"m", "o", "v", "e", "s">>, <<"e", "2", "e", "4">>, <<"e", "7", "e", "5">>>>,
   <<<<"s", "e", "t", "o", "p", "t", "i", "o", "n">>, <<"n", "a", "m", "e">>, <<"a">>, <<"v", "a", "l", "u", "e">>, <<"b">>>>, <<<<"r", "e", "g", "i", "s", "t", "e", "r">>, <<"l", "a", "t", "e", "r">>>>}

DecoratedInputs ==
  {[kind |-> "decorated", tokens |-> ts, lead |-> l, gap |-> m, trail |-> t] :
     ts \in TokenLists, l \in 0..1, m \in 0..MaxGap, t \in 0..1}

Spaces(n) == [i \in 1..n |-> " "]

RECURSIVE joinWith(_, _)
joinWith(xs, sep) ==
  IF xs = <<>> THEN <<>>
  ELSE IF Len(xs) = 1 THEN xs[1]
  ELSE xs[1] \o sep \o joinWith(Tail(xs), sep)

Decorated(d) ==
  Spaces(d.lead) \o joinWith(d.tokens, Spaces(d.gap)) \o Spaces(d.trail)

\* A go line as the parameters written on it, each with the text that
\* writes it and the value it stands for.
MaxParams == 2

GoParameters ==
  {[text |-> <<"d", "e", "p", "t", "h", " ", "1", "2">>, val |-> [tag |-> "Depth", depth |-> [whole |-> 12, frac |-> 0]]],
   [text |-> <<"m", "o", "v", "e", "t", "i", "m", "e", " ", "5", "0", "0">>, val |-> [tag |-> "MoveTime", time |-> [whole |-> 500, frac |-> 0]]],
   [text |-> <<"w", "t", "i", "m", "e", " ", "7">>, val |-> [tag |-> "WTime", time |-> [whole |-> 7, frac |-> 0]]],
   [text |-> <<"m", "a", "t", "e", " ", "0">>, val |-> [tag |-> "Mate", n |-> [whole |-> 0, frac |-> 0]]],
   [text |-> <<"p", "o", "n", "d", "e", "r">>, val |-> [tag |-> "Ponder"]],
   [text |-> <<"i", "n", "f", "i", "n", "i", "t", "e">>, val |-> [tag |-> "Infinite"]],
   [text |-> <<"s", "e", "a", "r", "c", "h", "m", "o", "v", "e", "s", " ", "e", "2", "e", "4">>, val |-> [tag |-> "SearchMoves", moves |-> <<<<"e", "2", "e", "4">>>>]]}

GoInputs ==
  {[kind |-> "go", params |-> ps] : ps \in SeqsUpTo(GoParameters, MaxParams)}

GoLine(ps) == joinWith(<<<<"g", "o">>>> \o [i \in DOMAIN ps |-> ps[i].text], Spaces(1))

\* The text of the line an input stands for.
Text ==
  CASE input.kind = "line" -> input.g \o input.c
    [] input.kind = "decorated" -> Decorated(input)
    [] input.kind = "go" -> GoLine(input.params)

\* option and optional around a parser p: what p returns on the input x,
\* and the default.
OptionInputs ==
  {[kind |-> k, x |-> <<"a", "b">>, p |-> r, d |-> <<"d">>] :
     k \in {"option", "optional"},
     r \in {Ok(<<"a">>, <<"b">>), Ok(<<"a", "b">>, <<>>), Ok(<<>>, <<"a", "b">>),
            Fail(<<"e1">>), Fail(<<"e2">>)}}

\* -------------------------------------------------------- serialization
tokenizeId(id) ==
  CASE id.tag = "Name" -> <<<<"n", "a", "m", "e">>, id.name>>
    [] id.tag = "Author" -> <<<<"a", "u", "t", "h", "o", "r">>, id.author>>

tokenizeInfo(info) ==
  CASE info.tag = "String" -> <<<<"s", "t", "r", "i", "n", "g">>, info.s>>
    [] info.tag = "CurrMove" -> <<<<"c", "u", "r", "r", "m", "o", "v", "e">>, info.move>>
    [] info.tag = "Preview" -> <<<<"p", "v">>>> \o info.moves

\* An absent ponder move and the empty string both count as false.
tokenizeGUICmd(guiCmd) ==
  CASE guiCmd.tag = "Id" -> <<<<"i", "d">>>> \o tokenizeId(guiCmd.id)
    [] guiCmd.tag = "UCIOk" -> <<<<"u", "c", "i", "o", "k">>>>
    [] guiCmd.tag = "ReadyOk" -> <<<<"r", "e", "a", "d", "y", "o", "k">>>>
    [] guiCmd.tag = "BestMove" ->
         <<<<"b", "e", "s", "t", "m", "o", "v", "e">>, guiCmd.move>>
           \o (IF guiCmd.ponder # <<>> THEN <<guiCmd.ponder>> ELSE <<>>)
    [] guiCmd.tag = "Info" ->
         <<<<"i", "n", "f", "o">>>> \o Flatten([i \in DOMAIN guiCmd.params |->
                                 tokenizeInfo(guiCmd.params[i])])

serializeTokens(tokens) == joinWith(tokens, Spaces(1))

serializeGUICmd(guiCmd) == serializeTokens(tokenizeGUICmd(guiCmd))

withLineAlways(s) == s \o <<"\n">>

withLine(s) ==
  IF Len(s) = 0 \/ s[Len(s)] = "\n" THEN s ELSE s \o <<"\n">>

\* The responses of one dispatch, or of one sendInfo or sendBestMove. The
\* texts in them come from the handler.
MaxResponses == 2

Strings == {<<"a">>, <<>>, <<"a", "\n">>, <<"a", "\n", "\n">>}

GUICommands ==
  {[tag |-> "Id", id |-> [tag |-> "Name", name |-> s]] : s \in Strings}
  \cup {[tag |-> "Id", id |-> [tag |-> "Author", author |-> <<"b">>]],
        [tag |-> "UCIOk"], [tag |-> "ReadyOk"],
        [tag |-> "Info", params |-> <<>>],
        [tag |-> "Info", params |-> <<[tag |-> "Preview", moves |-> <<<<"e", "2", "e", "4">>, <<"e", "7", "e", "5">>>>],
                                      [tag |-> "CurrMove", move |-> <<"e", "2", "e", "4">>]>>]}
  \cup {[tag |-> "BestMove", move |-> <<"e", "2", "e", "4">>, ponder |-> s] : s \in {<<>>, <<"e", "7", "e", "5">>}}
  \cup {[tag |-> "Info", params |-> <<[tag |-> "String", s |-> s]>>] : s \in Strings}

WriteInputs ==
  {[kind |-> "write", cmds |-> cs] : cs \in SeqsUpTo(GUICommands, MaxResponses)}

ParserInit ==
  /\ SessionInit
  /\ input \in ChoiceInputs \cup LineInputs \cup DecoratedInputs \cup GoInputs
               \cup OptionInputs \cup WriteInputs
  /\ result = NoInput

ApplyChoice ==
  /\ input.kind = "choice"
  /\ result = NoInput
  /\ result' = choice(input.alts)
  /\ UNCHANGED <<svars, input>>

ApplyOption ==
  /\ input.kind = "option"
  /\ result = NoInput
  /\ result' = option(input.d, input.p, input.x)
  /\ UNCHANGED <<svars, input>>

ApplyOptional ==
  /\ input.kind = "optional"
  /\ result = NoInput
  /\ result' = optional(input.p)
  /\ UNCHANGED <<svars, input>>

ParseLine ==
  /\ input.kind \in {"line", "decorated", "go"}
  /\ result = NoInput
  /\ result' = parseUCIEngineCmd(Text)
  /\ UNCHANGED <<svars, input>>

\* cmds.map(serializeGUICmd).join("\n") handed to writeP: text is the
\* string serialized, written the string given to output.write.
WriteResponses ==
  /\ input.kind = "write"
  /\ result = NoInput
  /\ result' =
       [text |-> joinWith([i \in DOMAIN input.cmds |-> serializeGUICmd(input.cmds[i])],
                          <<"\n">>),
        written |-> withLine(joinWith([i \in DOMAIN input.cmds |->
                                         serializeGUICmd(input.cmds[i])],
                                      <<"\n">>))]
  /\ UNCHANGED <<svars, input>>

ParserNext ==
  ApplyChoice \/ ApplyOption \/ ApplyOptional \/ ParseLine \/ WriteResponses

ParserSpec == ParserInit /\ [][ParserNext]_vars

\* ---------------------------------------------------------- parser claims
Applied(kind) == input.kind = kind /\ result # NoInput

Succeeding(rs) == {i \in DOMAIN rs : rs[i].ok}

First(S) == CHOOSE i \in S : \A j \in S : i <= j

\* C18: choice returns the result of the first alternative, in argument
\* order, that succeeds.
C18_ChoiceFirstWins ==
  (Applied("choice") /\ Succeeding(input.alts) # {}) =>
    result = input.alts[First(Succeeding(input.alts))]

\* C19: when every alternative fails, choice returns the error of the last
\* alternative.
C19_ChoiceLastError ==
  (Applied("choice") /\ input.alts # <<>> /\ Succeeding(input.alts) = {}) =>
    result = input.alts[Len(input.alts)]

\* C20 as stated: a line that parses, behind any noise, parses to the same
\* command.
C20_GarbageTolerance ==
  (Applied("line") /\ parseUCIEngineCmd(input.c).ok) =>
    result = parseUCIEngineCmd(input.c)

\* The offsets inside the noise at which a command matches through the end
\* of the line.
NoiseMatches ==
  {k \in 0..(Len(input.g) - 1) :
     uciEngineCmdEOF(slice(input.g \o input.c, k)).ok}

\* C20: a line that parses still parses behind any noise; it parses to the
\* same command unless a command that runs to the end of the line starts
\* inside the noise, and then to the leftmost such command.
C20_GarbageUnlessEarlierMatch ==
  (Applied("line") /\ parseUCIEngineCmd(input.c).ok) =>
    /\ result.ok
    /\ NoiseMatches = {} => result = parseUCIEngineCmd(input.c)
    /\ NoiseMatches # {} =>
         result.val =
           uciEngineCmdEOF(slice(input.g \o input.c, First(NoiseMatches))).val

C20_Witness ==
  /\ Applied("line")
  /\ input.g = <<"i", "s", "r", "e", "a", "d", "y">>
  /\ input.c = <<"p", "o", "s", "i", "t", "i", "o", "n", " ", "s", "t", "a", "r", "t", "p", "o", "s", " ", "m", "o", "v", "e", "s", " ", "e", "2", "e", "4">>
  /\ NoiseMatches = {}
  /\ result = parseUCIEngineCmd(input.c)
  /\ result.val.tag = "Position"

\* ------------------------------------------------------- grammar claims
Parsed == input.kind \in {"line", "decorated", "go"} /\ result # NoInput

\* The tokens of a command written with single spaces.
Canonical(ts) == joinWith(ts, Spaces(1))

\* A command of the grammar matches at offset k of the text.
CommandAt(k) == uciEngineCmd(slice(Text, k)).ok

\* The command that matches at offset k leaves only whitespace behind it.
ToEndAt(k) ==
  /\ CommandAt(k)
  /\ whitespaces(uciEngineCmd(slice(Text, k)).rest).rest = <<>>

Offsets == 0..Len(Text)

\* C21 as stated: the scan stops at the first offset where a command
\* matches; the line parses to that command when only whitespace is left
\* behind it and is a ParseError otherwise.
C21_FirstMatchMustEnd ==
  (Parsed /\ \E k \in Offsets : CommandAt(k)) =>
    IF ToEndAt(First({k \in Offsets : CommandAt(k)}))
    THEN /\ result.ok
         /\ result.val =
              uciEngineCmd(slice(Text, First({k \in Offsets : CommandAt(k)}))).val
    ELSE ~result.ok

\* C21: the scan stops at the first offset where a command matches and
\* leaves only whitespace up to the end of the line, and the line parses to
\* that command; a line is a ParseError exactly when no offset has such a
\* match, and a command that matches but leaves other text behind it does
\* not stop the scan.
C21_FirstMatchThroughEnd ==
  Parsed =>
    /\ result.ok <=> \E k \in Offsets : ToEndAt(k)
    /\ result.ok =>
         result.val =
           uciEngineCmd(slice(Text, First({k \in Offsets : ToEndAt(k)}))).val

C21_Witness ==
  /\ Applied("line")
  /\ Text = <<"g", "o", " ", "x", "y", "z">>
  /\ CommandAt(0)
  /\ ~ToEndAt(0)
  /\ ~result.ok

C21_WitnessScanGoesOn ==
  /\ Applied("line")
  /\ Text = <<"u", "c", "i", " ", "i", "s", "r", "e", "a", "d", "y">>
  /\ CommandAt(0)
  /\ ~ToEndAt(0)
  /\ result.ok
  /\ result.val = [tag |-> "IsReady"]

\* C22: whitespace between a keyword and its payload and between go
\* parameters is mandatory: a line whose tokens are written with no
\* whitespace between them does not parse as the command it would be with
\* the tokens spaced.
C22_WhitespaceMandatory ==
  (Applied("decorated") /\ input.gap = 0 /\ Len(input.tokens) > 1) =>
    result # parseUCIEngineCmd(Canonical(input.tokens))

\* The parser was applied to the plain line c.
PlainLine(c) == Applied("line") /\ input.g = <<>> /\ input.c = c

Command(v) == [ok |-> TRUE, val |-> v]

\* C23: `debug on` parses to Debug with the flag true, `debug off` to Debug
\* with the flag false, and `debug` alone to Debug with the flag absent.
C23_DebugFlag ==
  /\ PlainLine(<<"d", "e", "b", "u", "g", " ", "o", "n">>) => result = Command([tag |-> "Debug", on |-> "true"])
  /\ PlainLine(<<"d", "e", "b", "u", "g", " ", "o", "f", "f">>) => result = Command([tag |-> "Debug", on |-> "false"])
  /\ PlainLine(<<"d", "e", "b", "u", "g">>) => result = Command([tag |-> "Debug", on |-> "undefined"])

\* C24: `setoption name <id>` without a value part parses to SetOption
\* with the name and no value, and `setoption name <id> value <v>` to
\* SetOption with the name and, as value, the rest of the line.
C24_SetOptionValueOptional ==
  /\ PlainLine(<<"s", "e", "t", "o", "p", "t", "i", "o", "n", " ", "n", "a", "m", "e", " ", "a">>) =>
       result = Command([tag |-> "SetOption", name |-> <<"a">>])
  /\ PlainLine(<<"s", "e", "t", "o", "p", "t", "i", "o", "n", " ", "n", "a", "m", "e", " ", "a", " ", "v", "a", "l", "u", "e", " ", "b">>) =>
       result = Command([tag |-> "SetOption", name |-> <<"a">>, value |-> <<"b">>])
  /\ PlainLine(<<"s", "e", "t", "o", "p", "t", "i", "o", "n", " ", "n", "a", "m", "e", " ", "a", " ", "b", " ", "v", "a", "l", "u", "e", " ", "c", " ", "d">>) =>
       result = Command([tag |-> "SetOption", name |-> <<"a", " ", "b">>, value |-> <<"c", " ", "d">>])

\* C25: leading whitespace, trailing whitespace and extra whitespace
\* between the tokens of a command line do not change the command it
\* parses to, and every element of a parsed move list is a non-empty word.
C25_WhitespaceDecoration ==
  (Applied("decorated") /\ input.gap >= 1) =>
    /\ result = parseUCIEngineCmd(Canonical(input.tokens))
    /\ (result.ok /\ result.val.tag = "Position") =>
         \A i \in DOMAIN result.val.moves : result.val.moves[i] # <<>>

\* C26: in `go searchmoves <m1> <m2> depth <n>` the SearchMoves list holds
\* only the moves m1, m2 and the depth is a parameter of its own.
C26_SearchMovesThenParameters ==
  /\ PlainLine(<<"g", "o", " ", "s", "e", "a", "r", "c", "h", "m", "o", "v", "e", "s", " ", "e", "2", "e", "4", " ", "d", "2", "d", "4", " ", "d", "e", "p", "t", "h", " ", "3">>) =>
       result = Command([tag |-> "Go",
                         params |-> <<[tag |-> "SearchMoves", moves |-> <<<<"e", "2", "e", "4">>, <<"d", "2", "d", "4">>>>],
                                      [tag |-> "Depth", depth |-> Number(3, 0)]>>])
  /\ PlainLine(<<"g", "o", " ", "s", "e", "a", "r", "c", "h", "m", "o", "v", "e", "s", " ", "e", "2", "e", "4", " ", "d", "2", "d", "4">>) =>
       result = Command([tag |-> "Go",
                         params |-> <<[tag |-> "SearchMoves", moves |-> <<<<"e", "2", "e", "4">>, <<"d", "2", "d", "4">>>>]>>])

\* C27: a go line parses to Go with one parameter per parameter keyword of
\* the line, in the order written, each numeric parameter with the natural
\* number written after its keyword; `go` alone gives no parameters.
C27_GoParametersInOrder ==
  Applied("go") =>
    result = Command([tag |-> "Go",
                      params |-> [i \in DOMAIN input.params |-> input.params[i].val]])

\* C28: each keyword-only line parses to its own command; `ucinewgame`
\* parses to UCINewGame, never to UCI or to a ParseError.
C28_KeywordCommands ==
  /\ PlainLine(<<"u", "c", "i">>) => result = Command([tag |-> "UCI"])
  /\ PlainLine(<<"i", "s", "r", "e", "a", "d", "y">>) => result = Command([tag |-> "IsReady"])
  /\ PlainLine(<<"u", "c", "i", "n", "e", "w", "g", "a", "m", "e">>) => result = Command([tag |-> "UCINewGame"])
  /\ PlainLine(<<"s", "t", "o", "p">>) => result = Command([tag |-> "Stop"])
  /\ PlainLine(<<"p", "o", "n", "d", "e", "r", "h", "i", "t">>) => result = Command([tag |-> "Ponderhit"])
  /\ PlainLine(<<"q", "u", "i", "t">>) => result = Command([tag |-> "Quit"])

C28_Witness ==
  /\ PlainLine(<<"u", "c", "i", "n", "e", "w", "g", "a", "m", "e">>)
  /\ uciUciCmd(input.c).ok
  /\ result = Command([tag |-> "UCINewGame"])

\* ---------------------------------------------------- combinator claims
\* C29: optional(p) and option(d, p) never fail: when p fails they succeed
\* without consuming input, option with the default d, and when p succeeds
\* they consume what p consumed.
C29_OptionNeverFails ==
  (Applied("option") \/ Applied("optional")) =>
    /\ result.ok
    /\ input.p.ok => result.rest = input.p.rest
    /\ ~input.p.ok =>
         /\ result.rest = input.x
         /\ input.kind = "option" => result.val = input.d

\* --------------------------------------------------- serialization claims
RECURSIVE Sum(_)
Sum(ns) == IF ns = <<>> THEN 0 ELSE Head(ns) + Sum(Tail(ns))

\* The length of n pieces of the given lengths with one separator character
\* between two neighbours.
Joined(ns) == Sum(ns) + (IF Len(ns) > 0 THEN Len(ns) - 1 ELSE 0)

TokenLengths(cmd) ==
  [j \in DOMAIN tokenizeGUICmd(cmd) |-> Len(tokenizeGUICmd(cmd)[j])]

\* The text is the responses in order, one newline between two of them,
\* each response its tokens in order, one space between two of them.
SingleSeparators ==
  /\ Len(result.text) =
       Joined([i \in DOMAIN input.cmds |-> Joined(TokenLengths(input.cmds[i]))])
  /\ \A i \in DOMAIN input.cmds :
       \E k \in 0..Len(result.text) :
         /\ SubSeq(result.text, k + 1, k + Len(serializeGUICmd(input.cmds[i])))
              = serializeGUICmd(input.cmds[i])
         /\ k = Joined([h \in 1..(i - 1) |-> Joined(TokenLengths(input.cmds[h]))])
                + (IF i > 1 THEN 1 ELSE 0)
         /\ i > 1 => result.text[k] = "\n"
  /\ \A i \in DOMAIN input.cmds :
       \A j \in 2..Len(tokenizeGUICmd(input.cmds[i])) :
         serializeGUICmd(input.cmds[i])
           [Joined([h \in 1..(j - 1) |-> TokenLengths(input.cmds[i])[h]]) + 1] = " "

\* A newline is appended only to a non-empty text that does not end with
\* one, and appending is idempotent.
NewlineOnlyIfAbsent ==
  /\ result.written =
       IF result.text # <<>> /\ result.text[Len(result.text)] # "\n"
       THEN result.text \o <<"\n">>
       ELSE result.text
  /\ withLine(result.written) = result.written

EndsInNewline(s) == s # <<>> /\ s[Len(s)] = "\n"

EndsInTwoNewlines(s) == Len(s) >= 2 /\ s[Len(s)] = "\n" /\ s[Len(s) - 1] = "\n"

\* C30 as stated: tokens are joined by single spaces and responses by
\* newlines, a newline is appended on writing only when the text is
\* non-empty and does not end with one, appending is idempotent, and every
\* non-empty write ends in exactly one newline.
C30_ExactlyOneNewline ==
  Applied("write") =>
    /\ SingleSeparators
    /\ NewlineOnlyIfAbsent
    /\ result.written # <<>> =>
         EndsInNewline(result.written) /\ ~EndsInTwoNewlines(result.written)

\* C30: tokens are joined by single spaces and responses by newlines, a
\* newline is appended on writing only when the text is non-empty and does
\* not end with one, appending is idempotent, and every non-empty write
\* ends in a newline: in exactly one unless the text serialized already
\* ended in more than one.
C30_NewlineTerminated ==
  Applied("write") =>
    /\ SingleSeparators
    /\ NewlineOnlyIfAbsent
    /\ result.written # <<>> => EndsInNewline(result.written)
    /\ EndsInTwoNewlines(result.written) <=> EndsInTwoNewlines(result.text)

C30_Witness ==
  /\ Applied("write")
  /\ Len(input.cmds) = 2
  /\ input.cmds[2] = [tag |-> "UCIOk"]
  /\ ~EndsInNewline(result.text)
  /\ result.written = result.text \o <<"\n">>

C30_WitnessKept ==
  /\ Applied("write")
  /\ input.cmds = <<[tag |-> "Info", params |-> <<[tag |-> "String", s |-> <<"a", "\n">>]>>]>>
  /\ result.written = result.text
  /\ result.text = <<"i", "n", "f", "o", " ", "s", "t", "r", "i", "n", "g", " ", "a">> \o <<"\n">>

====
